---- MODULE Spec2Model ----
(***************************************************************************)
(* SCTP-DSAI lesson management: the sync of a lesson directory from its   *)
(* upstream repository (scripts/sync-lesson.sh, written out by            *)
(* setup_sctp_dsai.py) and the manager that drives it                     *)
(* (dsai_management.py: LessonManager.sync_lesson / sync_all_lessons).    *)
(*                                                                         *)
(* A file name is a sequence of segments (<<"intro", ".local.", "ipynb">> *)
(* is intro.local.ipynb), so that glob matching is computed, a path is a  *)
(* sequence of names relative to the lesson directory, and a tree maps    *)
(* the paths of its files to their contents; a directory is a proper      *)
(* prefix of a file's path.  The reserved subdirectory .custom-changes is *)
(* kept apart: backups[f][ts] is the tree below                           *)
(* .custom-changes/backup-<ts>.  What find copies from inside the         *)
(* reserved subdirectory into a new backup (earlier backups, the backup   *)
(* under construction) is not tracked.                                     *)
(***************************************************************************)
EXTENDS Integers, Sequences, FiniteSets, TLC

\* Bounds of the model.
MaxRuns == 2        \* operations the operator starts (single syncs, batches)
MaxFaults == 1      \* script runs cut off by the timeout, clones that fail
SecsPerDay == 1     \* clock ticks per calendar day
MaxClock == 2       \* last clock value
MaxPatterns == 3    \* patterns of a catalog drawn for check_custom_changes

---------------------------------------------------------------------------
\* Names, patterns, contents

LESSONS_DIR == <<"lessons">>
CUSTOM_CHANGES == <<".custom-changes">>
LESSON_INFO == <<"LESSON_INFO.md">>

\* sync-lesson.sh: PRESERVE_PATTERNS
PRESERVE_PATTERNS ==
    { <<"*", ".local.", "*">>, <<"*", "-custom.", "*">>, <<"*", "-notes.", "*">>,
      <<"my-", "*">>, <<"custom-", "*">>, <<".custom-changes">>, <<"LESSON_INFO.md">> }

\* lessons-metadata.json: preservation_patterns (a trailing "/" marks a directory pattern)
preservation_patterns ==
    << <<"*", ".local.", "*">>, <<"*", "-custom.", "*">>, <<"*", "-notes.", "*">>,
       <<"my-", "*">>, <<"custom-", "*", "/">> >>

\* fnmatch of a name against a glob pattern ("*" matches any run of segments)
RECURSIVE Glob(_, _)
Glob(pat, name) ==
    IF pat = <<>> THEN name = <<>>
    ELSE IF Head(pat) = "*"
         THEN Glob(Tail(pat), name) \/ (name # <<>> /\ Glob(pat, Tail(name)))
         ELSE name # <<>> /\ Head(name) = Head(pat) /\ Glob(Tail(pat), Tail(name))

\* find -name "$pattern" for some pattern of PRESERVE_PATTERNS
NameMatches(name) == \E pat \in PRESERVE_PATTERNS : Glob(pat, name)

\* File contents: the text, and what the two greps/seds of the marker file see:
\* the value of the "Source Repository" line ("" when there is none) and the date
\* of the "Last Synced" line (-1 when there is none).
Plain(text) == [text |-> text, source |-> "", synced |-> -1]
Marker(src, date) == [text |-> "info", source |-> src, synced |-> date]

---------------------------------------------------------------------------
\* Trees

EmptyTree == [p \in {} |-> Plain("")]

Dirs(tree) == UNION { { SubSeq(p, 1, k) : k \in 1..(Len(p) - 1) } : p \in DOMAIN tree }

IsPrefix(d, p) == Len(d) <= Len(p) /\ SubSeq(p, 1, Len(d)) = d

\* cp -r of the files of src onto the directory holding dest, of which destDirs
\* are directories: a file is not copied onto a directory, nor below a path
\* that is a file ("cannot overwrite directory with non-directory" and the
\* reverse); cp copies the rest and exits non-zero.
CpBlocked(src, dest, destDirs) ==
    { p \in DOMAIN src :
        \/ p \in destDirs
        \/ \E k \in 1..(Len(p) - 1) : SubSeq(p, 1, k) \in DOMAIN dest }

CpR(src, dest, destDirs) ==
    LET blocked == CpBlocked(src, dest, destDirs)
        copied == (DOMAIN src) \ blocked
    IN  [ tree |-> [ q \in (DOMAIN dest) \cup copied |->
                       IF q \in copied THEN src[q] ELSE dest[q] ],
          ok |-> blocked = {} ]

\* The directories of a lesson directory: those of its files and the reserved one.
LessonDirs(tree) == Dirs(tree) \cup { <<CUSTOM_CHANGES>> }

---------------------------------------------------------------------------
\* The catalog and the world it is set up in

\* setup_sctp_dsai.py: LESSONS (url, folder), three of them
LESSONS ==
    << [url |-> "url1", folder |-> "lesson1_1"],
       [url |-> "url2", folder |-> "lesson1_2"],
       [url |-> "url3", folder |-> "lesson1_3"] >>

\* the lessons the operator picks in the sync menu
SingleTargets == {2}
\* the lessons the learner has put files of their own into
Customized == {"lesson1_1", "lesson1_2"}
\* the lesson directories that may have been removed
Removed == {"lesson1_2"}

Folders == { LESSONS[i].folder : i \in 1..Len(LESSONS) }
Urls == { LESSONS[i].url : i \in 1..Len(LESSONS) }
UrlOf(f) == (CHOOSE l \in { LESSONS[i] : i \in 1..Len(LESSONS) } : l.folder = f).url

\* calendar date of a clock value (date +%Y-%m-%d, strftime("%Y-%m-%d"))
Date(t) == t \div SecsPerDay

\* add_all_lessons: the catalog record of a lesson added on day 0
LessonRecord(l) ==
    [ folder |-> l.folder, source_repo |-> l.url, added_date |-> 0,
      last_synced |-> 0, has_custom_changes |-> FALSE ]

InitialMetadata ==
    [ lessons |-> [ i \in 1..Len(LESSONS) |-> LessonRecord(LESSONS[i]) ],
      last_updated |-> 0,
      version |-> "1.0.0",
      preservation_patterns |-> preservation_patterns ]

\* add-lesson.sh: a lesson directory as cloned (upstream content and the marker
\* file), and the same with the learner's own files beside it.
ClonedTree(url) ==
    ( <<LESSON_INFO>> :> Marker(url, 0) ) @@
    ( << <<"intro", ".ipynb">> >> :> Plain("old") )

CustomFiles ==
    ( << <<"intro", ".local.", "ipynb">> >> :> Plain("mine") ) @@
    ( << <<"custom-", "work">>, <<"f.txt">> >> :> Plain("mine") ) @@
    ( << <<"week1">>, <<"my-", "todo.md">> >> :> Plain("mine") )

InitialTree(url, custom) ==
    IF custom THEN ClonedTree(url) @@ CustomFiles ELSE ClonedTree(url)

\* What the upstream repositories hold.
UpstreamTrees ==
    { \* a changed notebook, a new one, and a file named like a learner's file
      ( << <<"intro", ".ipynb">> >> :> Plain("new") ) @@
      ( << <<"solutions", ".ipynb">> >> :> Plain("new") ) @@
      ( << <<"intro", ".local.", "ipynb">> >> :> Plain("new") ),
      \* a regular file named lessons
      ( << <<"intro", ".ipynb">> >> :> Plain("new") ) @@
      ( << LESSONS_DIR >> :> Plain("new") ),
      \* a regular file named .custom-changes
      ( << <<"intro", ".ipynb">> >> :> Plain("new") ) @@
      ( << CUSTOM_CHANGES >> :> Plain("new") ),
      \* a LESSON_INFO.md of its own, naming the first lesson's repository
      ( << <<"intro", ".ipynb">> >> :> Plain("new") ) @@
      ( << LESSON_INFO >> :> Marker(LESSONS[1].url, 0) ) }

VARIABLES
    metadata,       \* LessonManager.metadata: the catalog in memory
    disk,           \* lessons-metadata.json: the catalog as persisted
    exists,         \* exists[f]: lessons/<f> is a directory
    files,          \* files[f]: the tree of lessons/<f> outside .custom-changes
    backups,        \* backups[f]: timestamp -> tree of .custom-changes/backup-<ts>
    scriptExists,   \* scripts/sync-lesson.sh exists
    upstream,       \* upstream[url]: the tree of the repository at url
    now,            \* the clock
    pc,             \* "idle", "loop" (in sync_all_lessons), "script" (in sync_lesson),
                    \* "for" (in the loop of sync-lesson.sh --all),
                    \* "exit(1)" (the manager has ended on an exception)
    mode,           \* the last operation: "none", "single", "all", "refresh", "--all"
    idx,            \* index of the lesson being synced
    counts,         \* <<success_count, failed_count>> of sync_all_lessons
    sh,             \* the running sync-lesson.sh
    result,         \* what the last sync_lesson returned: [success, output]
    runs,           \* operations started
    faults,         \* script runs cut off and clones that failed, so far
    hist,           \* what the last sync_lesson saw and did (for the properties)
    batch,          \* what the last sync_all_lessons saw and did (for the properties)
    custom_files,   \* what the last check_custom_changes returned
    scanned,        \* index of the lesson it was called on, 0 before any call
    procs,          \* procs[p]: manager process p, where several run at once
    saves           \* the processes that wrote lessons-metadata.json, in order

vars == << metadata, disk, exists, files, backups, scriptExists, upstream, now,
           pc, mode, idx, counts, sh, result, runs, faults, hist, batch,
           custom_files, scanned, procs, saves >>

\* the variables of check_custom_changes, and the others
matcherVars == << custom_files, scanned >>
managerVars == << procs, saves >>
syncVars == << metadata, disk, exists, files, backups, scriptExists, upstream, now,
              pc, mode, idx, counts, sh, result, runs, faults, hist, batch >>

ShOff ==
    [ stage |-> "off", folder |-> "", SOURCE_REPO |-> "", BACKUP_DIR |-> 0,
      TEMP_DIR |-> EmptyTree, code |-> 0, stdout |-> <<>>, stderr |-> <<>> ]

NoHist ==
    [ folder |-> "", pre |-> EmptyTree, preBackups |-> EmptyTree,
      preMetadata |-> InitialMetadata, preDisk |-> InitialMetadata,
      prevFolder |-> "", prevOk |-> FALSE, prevAt |-> "off", prevPre |-> EmptyTree,
      backup |-> 0, fetch |-> "none", fetched |-> EmptyTree,
      restore |-> "none", end |-> "none", at |-> "off" ]

\* no manager process beside the one of metadata and pc
NoProcs == << >>

NoBatch ==
    [ preFiles |-> [ f \in Folders |-> EmptyTree ],
      preBackups |-> [ f \in Folders |-> EmptyTree ],
      preMetadata |-> InitialMetadata, attempts |-> <<>> ]

Init ==
    /\ metadata = InitialMetadata
    /\ disk = InitialMetadata
    /\ \E missing \in SUBSET Removed : exists = [ f \in Folders |-> f \notin missing ]
    /\ files = [ f \in Folders |->
                  IF exists[f] THEN InitialTree(UrlOf(f), f \in Customized) ELSE EmptyTree ]
    /\ backups = [ f \in Folders |-> EmptyTree ]
    /\ scriptExists \in BOOLEAN
    /\ \E up \in UpstreamTrees : upstream = [ u \in Urls |-> up ]
    /\ now = SecsPerDay
    /\ pc = "idle"
    /\ mode = "none"
    /\ idx = 0
    /\ counts = <<0, 0>>
    /\ sh = ShOff
    /\ result = [success |-> FALSE, output |-> <<>>]
    /\ runs = 0
    /\ faults = 0
    /\ hist = NoHist
    /\ batch = NoBatch
    /\ custom_files = <<>>
    /\ scanned = 0
    /\ procs = NoProcs
    /\ saves = <<>>

---------------------------------------------------------------------------
\* scripts/sync-lesson.sh <folder>: sync_single_lesson under set -e, one action
\* per command of the script

Running(stage) == pc = "script" /\ sh.stage = stage

Exit(code, out, err) ==
    [ sh EXCEPT !.stage = "exited", !.code = code,
                !.stdout = sh.stdout \o out, !.stderr = sh.stderr \o err ]

\* if [ ! -d "$LESSON_PATH" ]; then echo "Error: ..."; return 1; fi
ShValidate ==
    /\ Running("validate")
    /\ IF exists[sh.folder]
       THEN /\ sh' = [sh EXCEPT !.stage = "discover",
                                !.stdout = sh.stdout \o <<"Syncing: ">>]
            /\ hist' = hist
       ELSE /\ sh' = Exit(1, <<"Error: Lesson folder does not exist!">>, <<>>)
            /\ hist' = [hist EXCEPT !.end = "validate"]
    /\ UNCHANGED << metadata, disk, exists, files, backups, scriptExists, upstream,
                    now, pc, mode, idx, counts, result, runs, faults, batch >>
    /\ UNCHANGED << matcherVars, managerVars >>

\* SOURCE_REPO=$(grep "Source Repository" LESSON_INFO.md | sed ...)
GrepSource(tree) ==
    IF <<LESSON_INFO>> \in DOMAIN tree THEN tree[<<LESSON_INFO>>].source ELSE ""

\* ... if [ -z "$SOURCE_REPO" ]; then echo "Error: ..."; return 1; fi
ShDiscover ==
    /\ Running("discover")
    /\ LET src == GrepSource(files[sh.folder])
       IN  IF src # ""
           THEN /\ sh' = [sh EXCEPT !.stage = "backup", !.SOURCE_REPO = src]
                /\ hist' = hist
           ELSE /\ sh' = Exit(1, <<"Error: Could not find source repository">>,
                              IF <<LESSON_INFO>> \in DOMAIN files[sh.folder]
                              THEN <<>> ELSE <<"grep: No such file or directory">>)
                /\ hist' = [hist EXCEPT !.end = "discover"]
    /\ UNCHANGED << metadata, disk, exists, files, backups, scriptExists, upstream,
                    now, pc, mode, idx, counts, result, runs, faults, batch >>
    /\ UNCHANGED << matcherVars, managerVars >>

\* find "$LESSON_PATH" -name "$pattern": a file is copied when its own name or
\* the name of a directory above it matches (cp -r of the matched directory)
Matched(tree) ==
    { q \in DOMAIN tree : \E k \in 1..Len(q) : NameMatches(q[k]) }

\* cp -r --parents lessons/<folder>/<q> "$BACKUP_DIR/": the path below BACKUP_DIR
BackupPath(folder, q) == <<LESSONS_DIR, <<folder>>>> \o q

\* The files the backup loop writes below BACKUP_DIR
BackupCopy(folder, tree) ==
    [ p \in { BackupPath(folder, q) : q \in Matched(tree) } |->
        tree[CHOOSE q \in Matched(tree) : BackupPath(folder, q) = p] ]

\* the backup followed at once by the removal of the old content
ShBackupThenRemove ==
    /\ Running("backup")
    /\ LET f == sh.folder
           old == IF now \in DOMAIN backups[f] THEN backups[f][now] ELSE EmptyTree
           new == CpR(BackupCopy(f, files[f]), old, Dirs(old)).tree
       IN  backups' = [backups EXCEPT ![f] = (now :> new) @@ backups[f]]
    /\ sh' = [sh EXCEPT !.stage = "remove", !.BACKUP_DIR = now]
    /\ hist' = [hist EXCEPT !.backup = now]
    /\ UNCHANGED << metadata, disk, exists, files, scriptExists, upstream,
                    now, pc, mode, idx, counts, result, runs, faults, batch >>
    /\ UNCHANGED << matcherVars, managerVars >>

\* BACKUP_DIR=".../.custom-changes/backup-$(date +%Y%m%d-%H%M%S)"; mkdir -p; find loop
ShBackup ==
    /\ Running("backup")
    /\ LET f == sh.folder
           old == IF now \in DOMAIN backups[f] THEN backups[f][now] ELSE EmptyTree
           new == CpR(BackupCopy(f, files[f]), old, Dirs(old)).tree
       IN  backups' = [backups EXCEPT ![f] = (now :> new) @@ backups[f]]
    /\ sh' = [sh EXCEPT !.stage = "fetch", !.BACKUP_DIR = now]
    /\ hist' = [hist EXCEPT !.backup = now]
    /\ UNCHANGED << metadata, disk, exists, files, scriptExists, upstream,
                    now, pc, mode, idx, counts, result, runs, faults, batch >>
    /\ UNCHANGED << matcherVars, managerVars >>

\* TEMP_DIR=$(mktemp -d); git clone ... "$TEMP_DIR" 2>&1 | grep -v ... || true;
\* rm -rf "${TEMP_DIR}/.git": a failed clone leaves TEMP_DIR empty and goes on
GitClone(src, reachable) ==
    IF reachable /\ src \in DOMAIN upstream THEN upstream[src] ELSE EmptyTree

ShFetch ==
    /\ Running("fetch")
    /\ \E reachable \in BOOLEAN :
          /\ ~reachable => faults < MaxFaults
          /\ faults' = IF reachable THEN faults ELSE faults + 1
          /\ sh' = [sh EXCEPT !.stage = "remove",
                              !.TEMP_DIR = GitClone(sh.SOURCE_REPO, reachable)]
          /\ hist' = [hist EXCEPT !.fetch =
                                     IF reachable /\ sh.SOURCE_REPO \in DOMAIN upstream
                                     THEN "ok" ELSE "failed",
                                   !.fetched = GitClone(sh.SOURCE_REPO, reachable)]
    /\ UNCHANGED << metadata, disk, exists, files, backups, scriptExists, upstream,
                    now, pc, mode, idx, counts, result, runs, batch >>
    /\ UNCHANGED << matcherVars, managerVars >>

\* find "$LESSON_PATH" -mindepth 1 -maxdepth 1 -not -name ".custom-changes"
\*      -not -name "LESSON_INFO.md" -exec rm -rf {} +
RemoveOld(tree) == [ q \in { p \in DOMAIN tree : p[1] = LESSON_INFO } |-> tree[q] ]

ShRemove ==
    /\ Running("remove")
    /\ files' = [files EXCEPT ![sh.folder] = RemoveOld(files[sh.folder])]
    /\ sh' = [sh EXCEPT !.stage = "install"]
    /\ UNCHANGED << metadata, disk, exists, backups, scriptExists, upstream,
                    now, pc, mode, idx, counts, result, runs, faults, hist, batch >>
    /\ UNCHANGED << matcherVars, managerVars >>

\* cp -r "${TEMP_DIR}/." "$LESSON_PATH/": under set -e a failing cp ends the script
ShInstall ==
    /\ Running("install")
    /\ LET f == sh.folder
           r == CpR(sh.TEMP_DIR, files[f], LessonDirs(files[f]))
       IN  /\ files' = [files EXCEPT ![f] = r.tree]
           /\ IF r.ok
              THEN /\ sh' = [sh EXCEPT !.stage = "restore"]
                   /\ hist' = hist
              ELSE /\ sh' = Exit(1, <<>>, <<"cp: cannot overwrite">>)
                   /\ hist' = [hist EXCEPT !.end = "install"]
    /\ UNCHANGED << metadata, disk, exists, backups, scriptExists, upstream,
                    now, pc, mode, idx, counts, result, runs, faults, batch >>
    /\ UNCHANGED << matcherVars, managerVars >>

\* cp -r "$BACKUP_DIR"/* "$LESSON_PATH/" 2>/dev/null || true
\* (BACKUP_DIR is never empty here: the marker file, without which the script
\* has returned already, matches PRESERVE_PATTERNS)
ShRestore ==
    /\ Running("restore")
    /\ LET f == sh.folder
           r == CpR(backups[f][sh.BACKUP_DIR], files[f], LessonDirs(files[f]))
       IN  /\ files' = [files EXCEPT ![f] = r.tree]
           /\ hist' = [hist EXCEPT !.restore = IF r.ok THEN "ok" ELSE "failed"]
    /\ sh' = [sh EXCEPT !.stage = "finalize"]
    /\ UNCHANGED << metadata, disk, exists, backups, scriptExists, upstream,
                    now, pc, mode, idx, counts, result, runs, faults, batch >>
    /\ UNCHANGED << matcherVars, managerVars >>

\* sed -i.bak "s/Last Synced.*/Last Synced**: ${CURRENT_DATE}/" LESSON_INFO.md || ... || true
SedLastSynced(tree, date) ==
    IF <<LESSON_INFO>> \in DOMAIN tree /\ tree[<<LESSON_INFO>>].synced # -1
    THEN [tree EXCEPT ![<<LESSON_INFO>>].synced = date]
    ELSE tree

\* ... rm -rf "$TEMP_DIR"; echo "Sync complete!"
ShFinalize ==
    /\ Running("finalize")
    /\ files' = [files EXCEPT ![sh.folder] = SedLastSynced(files[sh.folder], Date(now))]
    /\ sh' = [Exit(0, <<"Sync complete!">>, <<>>) EXCEPT !.TEMP_DIR = EmptyTree]
    /\ hist' = [hist EXCEPT !.end = "complete"]
    /\ UNCHANGED << metadata, disk, exists, backups, scriptExists, upstream,
                    now, pc, mode, idx, counts, result, runs, faults, batch >>
    /\ UNCHANGED << matcherVars, managerVars >>

---------------------------------------------------------------------------
\* dsai_management.py: CommandRunner and LessonManager

\* Returned, leaving the loop at the first lesson that fails
ReturnedBreaks(m, i, success, output, h) ==
    /\ result' = [success |-> success, output |-> output]
    /\ hist' = h
    /\ mode' = m
    /\ IF m = "all"
       THEN /\ pc' = "loop"
            /\ idx' = IF success THEN i + 1 ELSE Len(metadata.lessons) + 1
            /\ counts' = IF success THEN <<counts[1] + 1, counts[2]>>
                                    ELSE <<counts[1], counts[2] + 1>>
            /\ batch' = [batch EXCEPT !.attempts =
                            Append(@, [idx |-> i, success |-> success,
                                       fetch |-> h.fetch, end |-> h.end])]
       ELSE /\ pc' = "idle"
            /\ idx' = i
            /\ UNCHANGED << counts, batch >>

\* sync_all_lessons, the body of the loop after sync_lesson has returned
\* (success_count += 1 / failed_count += 1), or the return to a single caller
Returned(m, i, success, output, h) ==
    /\ result' = [success |-> success, output |-> output]
    /\ hist' = h
    /\ mode' = m
    /\ IF m = "all"
       THEN /\ pc' = "loop"
            /\ idx' = i + 1
            /\ counts' = IF success THEN <<counts[1] + 1, counts[2]>>
                                    ELSE <<counts[1], counts[2] + 1>>
            /\ batch' = [batch EXCEPT !.attempts =
                            Append(@, [idx |-> i, success |-> success,
                                       fetch |-> h.fetch, end |-> h.end])]
       ELSE /\ pc' = "idle"
            /\ idx' = i
            /\ UNCHANGED << counts, batch >>

\* sync_lesson without the check of lesson.exists()
sync_lesson_unguarded(m, i) ==
    LET f == metadata.lessons[i].folder
        h == [NoHist EXCEPT !.folder = f, !.pre = files[f], !.preBackups = backups[f],
                            !.preMetadata = metadata, !.preDisk = disk,
                            !.prevFolder = hist.folder,
                            !.prevAt = hist.at, !.prevPre = hist.pre,
                            !.prevOk = (hist.end = "complete" /\ hist.fetch = "ok"
                                        /\ hist.restore = "ok")]
    IN  IF ~scriptExists
        THEN /\ Returned(m, i, FALSE, <<"Script not found: ", "./scripts/sync-lesson.sh">>,
                         [h EXCEPT !.end = "no_script"])
             /\ sh' = ShOff
        ELSE /\ pc' = "script"
             /\ mode' = m
             /\ idx' = i
             /\ sh' = [ShOff EXCEPT !.stage = "validate", !.folder = f]
             /\ hist' = [h EXCEPT !.end = "running"]
             /\ UNCHANGED << counts, result, batch >>

\* LessonManager.sync_lesson up to the start of the script:
\* lesson.exists(), CommandRunner.run_script's check of the script path
sync_lesson(m, i) ==
    LET f == metadata.lessons[i].folder
        h == [NoHist EXCEPT !.folder = f, !.pre = files[f], !.preBackups = backups[f],
                            !.preMetadata = metadata, !.preDisk = disk,
                            !.prevFolder = hist.folder,
                            !.prevAt = hist.at, !.prevPre = hist.pre,
                            !.prevOk = (hist.end = "complete" /\ hist.fetch = "ok"
                                        /\ hist.restore = "ok")]
    IN  IF ~exists[f]
        THEN /\ Returned(m, i, FALSE, <<"Lesson directory not found: ", f>>,
                         [h EXCEPT !.end = "dir_missing"])
             /\ sh' = ShOff
        ELSE IF ~scriptExists
        THEN /\ Returned(m, i, FALSE, <<"Script not found: ", "./scripts/sync-lesson.sh">>,
                         [h EXCEPT !.end = "no_script"])
             /\ sh' = ShOff
        ELSE /\ pc' = "script"
             /\ mode' = m
             /\ idx' = i
             /\ sh' = [ShOff EXCEPT !.stage = "validate", !.folder = f]
             /\ hist' = [h EXCEPT !.end = "running"]
             /\ UNCHANGED << counts, result, batch >>

\* SyncMenu.sync_single_lesson: the operator syncs lesson i
SyncSingle(i) ==
    /\ pc = "idle"
    /\ runs < MaxRuns
    /\ runs' = runs + 1
    /\ sync_lesson("single", i)
    /\ UNCHANGED << metadata, disk, exists, files, backups, scriptExists, upstream,
                    now, faults >>
    /\ UNCHANGED << matcherVars, managerVars >>

\* LessonManager.sync_all_lessons: entry
SyncAllStart ==
    /\ pc = "idle"
    /\ runs < MaxRuns
    /\ runs' = runs + 1
    /\ pc' = "loop"
    /\ mode' = "all"
    /\ idx' = 1
    /\ counts' = <<0, 0>>
    /\ batch' = [ preFiles |-> files, preBackups |-> backups,
                  preMetadata |-> metadata, attempts |-> <<>> ]
    /\ UNCHANGED << metadata, disk, exists, files, backups, scriptExists, upstream,
                    now, sh, result, faults, hist >>
    /\ UNCHANGED << matcherVars, managerVars >>

\* for lesson in self.metadata.lessons: success, _ = self.sync_lesson(lesson)
SyncAllIter ==
    /\ pc = "loop"
    /\ idx <= Len(metadata.lessons)
    /\ sync_lesson("all", idx)
    /\ UNCHANGED << metadata, disk, exists, files, backups, scriptExists, upstream,
                    now, runs, faults >>
    /\ UNCHANGED << matcherVars, managerVars >>

\* return success_count, failed_count
SyncAllReturn ==
    /\ pc = "loop"
    /\ idx > Len(metadata.lessons)
    /\ pc' = "idle"
    /\ UNCHANGED << metadata, disk, exists, files, backups, scriptExists, upstream,
                    now, mode, idx, counts, sh, result, runs, faults, hist, batch >>
    /\ UNCHANGED << matcherVars, managerVars >>

\* the commands of the script that take time: git clone, rm -rf, cp -r, cp -r
KillPoints == {"fetch", "remove", "install", "restore"}

\* a timeout that cuts off the commands that are making progress only
TimeoutSparesStalled ==
    /\ pc = "script"
    /\ sh.stage \in KillPoints
    /\ faults < MaxFaults
    /\ faults' = faults + 1
    /\ sh' = [sh EXCEPT !.stage = "exited", !.code = -1, !.stdout = <<>>,
                        !.stderr = <<"Command timed out after 5 minutes">>]
    /\ hist' = [hist EXCEPT !.end = "timeout", !.at = sh.stage]
    /\ UNCHANGED << metadata, disk, exists, files, backups, scriptExists, upstream,
                    now, pc, mode, idx, counts, result, runs, batch >>
    /\ UNCHANGED << matcherVars, managerVars >>

\* CommandRunner.run: subprocess.TimeoutExpired ends the script where it is
\* and returns (False, "", "Command timed out after 5 minutes"); a clone that
\* has stalled is always cut off, a command that is making progress may be
Timeout ==
    /\ pc = "script"
    /\ IF sh.stage = "stalled"
       THEN faults' = faults
       ELSE sh.stage \in KillPoints /\ faults < MaxFaults /\ faults' = faults + 1
    /\ sh' = [sh EXCEPT !.stage = "exited", !.code = -1, !.stdout = <<>>,
                        !.stderr = <<"Command timed out after 5 minutes">>]
    /\ hist' = [hist EXCEPT !.end = "timeout",
                            !.at = IF sh.stage = "stalled" THEN "fetch" ELSE sh.stage]
    /\ UNCHANGED << metadata, disk, exists, files, backups, scriptExists, upstream,
                    now, pc, mode, idx, counts, result, runs, batch >>
    /\ UNCHANGED << matcherVars, managerVars >>

\* a save that writes the catalog as it was set up
SaveStale(md) == InitialMetadata

\* self.metadata.save(): the whole catalog is written
Save(md) == md

\* ScriptReturn, marking the synced lesson as customised as well
ScriptReturnMarksCustom ==
    /\ Running("exited")
    /\ LET success == sh.code = 0
           md == IF success
                 THEN [metadata EXCEPT !.lessons[idx].last_synced = Date(now),
                                       !.lessons[idx].has_custom_changes = TRUE]
                 ELSE metadata
       IN  /\ metadata' = md
           /\ disk' = IF success THEN Save(md) ELSE disk
           /\ Returned(mode, idx, success, IF success THEN sh.stdout ELSE sh.stderr, hist)
    /\ sh' = ShOff
    /\ UNCHANGED << exists, files, backups, scriptExists, upstream, now, runs, faults >>
    /\ UNCHANGED << matcherVars, managerVars >>

\* LessonManager.sync_lesson after run_script has returned:
\* if success: lesson.last_synced = today; self.metadata.save()
\* return success, output           (stdout if success else stderr)
ScriptReturn ==
    /\ Running("exited")
    /\ LET success == sh.code = 0
           md == IF success
                 THEN [metadata EXCEPT !.lessons[idx].last_synced = Date(now)]
                 ELSE metadata
       IN  /\ metadata' = md
           /\ disk' = IF success THEN Save(md) ELSE disk
           /\ Returned(mode, idx, success, IF success THEN sh.stdout ELSE sh.stderr, hist)
    /\ sh' = ShOff
    /\ UNCHANGED << exists, files, backups, scriptExists, upstream, now, runs, faults >>
    /\ UNCHANGED << matcherVars, managerVars >>

\* a load that yields the catalog as it was set up
LoadStale(d) == InitialMetadata

\* LessonMetadata.load: the catalog as read from lessons-metadata.json
Load(d) == d

\* SettingsMenu.refresh_metadata: self.manager.metadata = LessonMetadata.load()
refresh_metadata ==
    /\ pc = "idle"
    /\ metadata' = Load(disk)
    /\ mode' = "refresh"
    /\ UNCHANGED << disk, exists, files, backups, scriptExists, upstream, now,
                    pc, idx, counts, sh, result, runs, faults, hist, batch >>
    /\ UNCHANGED << matcherVars, managerVars >>

\* time passes between two operations
Tick ==
    /\ pc = "idle"
    /\ 0 < runs /\ runs < MaxRuns
    /\ now < MaxClock
    /\ now' = now + 1
    /\ UNCHANGED << metadata, disk, exists, files, backups, scriptExists, upstream,
                    pc, mode, idx, counts, sh, result, runs, faults, hist, batch >>
    /\ UNCHANGED << matcherVars, managerVars >>

Next ==
    \/ \E i \in SingleTargets : SyncSingle(i)
    \/ SyncAllStart
    \/ SyncAllIter
    \/ SyncAllReturn
    \/ ShValidate
    \/ ShDiscover
    \/ ShBackup
    \/ ShFetch
    \/ ShRemove
    \/ ShInstall
    \/ ShRestore
    \/ ShFinalize
    \/ Timeout
    \/ ScriptReturn
    \/ refresh_metadata
    \/ Tick

Spec == Init /\ [][Next]_vars

---------------------------------------------------------------------------
\* LessonManager.check_custom_changes

\* the name of .custom-changes/backup-<ts>
BackupName(ts) == <<"backup-", ToString(ts)>>

\* lesson.path.rglob walks everything below lessons/<f>, backups included:
\* the files and the directories there, as paths relative to lessons/<f>
FilePaths(f) ==
    (DOMAIN files[f]) \cup
    UNION { { <<CUSTOM_CHANGES, BackupName(ts)>> \o q : q \in DOMAIN backups[f][ts] } :
            ts \in DOMAIN backups[f] }

DirPaths(f) ==
    UNION { { SubSeq(p, 1, k) : k \in 1..(Len(p) - 1) } : p \in FilePaths(f) }
        \cup { <<CUSTOM_CHANGES>> }
        \cup { <<CUSTOM_CHANGES, BackupName(ts)>> : ts \in DOMAIN backups[f] }

\* pattern.endswith('/') and pattern.rstrip('/')
endswith(pat) == pat # <<>> /\ pat[Len(pat)] = "/"

RECURSIVE rstrip(_)
rstrip(pat) == IF endswith(pat) THEN rstrip(SubSeq(pat, 1, Len(pat) - 1)) ELSE pat

\* Path.rglob(pattern): the entries, at any depth, whose name matches
rglob(pat, paths) == { p \in paths : Glob(pat, p[Len(p)]) }

\* the loop body without the tests of is_dir() and is_file()
PatternItemsAnyKind(pat, f) == rglob(rstrip(pat), FilePaths(f) \cup DirPaths(f))

\* one round of the loop: what the pattern appends to custom_files
PatternItems(pat, f) ==
    IF endswith(pat)
    THEN { item \in rglob(rstrip(pat), FilePaths(f) \cup DirPaths(f)) : item \in DirPaths(f) }
    ELSE { item \in rglob(pat, FilePaths(f) \cup DirPaths(f)) : item \in FilePaths(f) }

\* the orders in which a directory walk may yield a set of entries
RECURSIVE Orders(_)
Orders(S) ==
    IF S = {} THEN { <<>> }
    ELSE UNION { { <<x>> \o rest : rest \in Orders(S \ {x}) } : x \in S }

\* a loop that stops at the first pattern that matches something
RECURSIVE ListingsFirstMatch(_, _)
ListingsFirstMatch(patterns, f) ==
    IF patterns = <<>> THEN { <<>> }
    ELSE IF PatternItems(Head(patterns), f) # {}
         THEN Orders(PatternItems(Head(patterns), f))
         ELSE ListingsFirstMatch(Tail(patterns), f)

\* for pattern in patterns: ... custom_files.append(...): the lists the loop can build
RECURSIVE Listings(_, _)
Listings(patterns, f) ==
    IF patterns = <<>> THEN { <<>> }
    ELSE { a \o b : a \in Orders(PatternItems(Head(patterns), f)),
                    b \in Listings(Tail(patterns), f) }

\* check_custom_changes raising on a lesson without directory
CustomChangesRaising(patterns, f) ==
    IF ~exists[f] THEN { << <<"FileNotFoundError">> >> } ELSE Listings(patterns, f)

\* check_custom_changes with the catalog's patterns given: [] when
\* lesson.exists() is false
CustomChanges(patterns, f) ==
    IF ~exists[f] THEN { <<>> } ELSE Listings(patterns, f)

check_custom_changes(i) ==
    CustomChanges(metadata.preservation_patterns, metadata.lessons[i].folder)

\* check_custom_changes stripping the separators in the catalog's own list
CheckCustomChangesInPlace(i) ==
    /\ pc = "idle"
    /\ custom_files' \in check_custom_changes(i)
    /\ scanned' = i
    /\ metadata' = [metadata EXCEPT !.preservation_patterns =
                       [ k \in DOMAIN @ |-> rstrip(@[k]) ]]
    /\ UNCHANGED << disk, exists, files, backups, scriptExists, upstream, now,
                    pc, mode, idx, counts, sh, result, runs, faults, hist, batch >>
    /\ UNCHANGED managerVars

\* CustomFilesMenu: check_custom_changes is called on lesson i
CheckCustomChanges(i) ==
    /\ pc = "idle"
    /\ custom_files' \in check_custom_changes(i)
    /\ scanned' = i
    /\ UNCHANGED << syncVars, managerVars >>

\* The patterns a catalog may list: those of the catalog as set up, and my-*/
PatternPool ==
    { preservation_patterns[k] : k \in 1..Len(preservation_patterns) }
        \cup { <<"my-", "*", "/">> }

PatternLists ==
    { preservation_patterns } \cup
    { s \in UNION { [1..n -> PatternPool] : n \in 0..MaxPatterns } :
        \A j, k \in DOMAIN s : j # k => s[j] # s[k] }

\* What the learner may have put into a lesson directory
ScanTrees ==
    { EmptyTree,
      CustomFiles,
      ( << <<"my-", "x", ".local.", "txt">> >> :> Plain("mine") ) @@
      ( << <<"custom-", "x.txt">> >> :> Plain("mine") ) @@
      ( << <<"my-", "stuff">>, <<"a.txt">> >> :> Plain("mine") ) @@
      ( << <<"week1">>, <<"my-", "y.md">> >> :> Plain("mine") ) @@
      ( << <<"week1">>, <<"custom-", "lab">>, <<"n.txt">> >> :> Plain("mine") ) }

\* the manager, idle, over a catalog and lesson directories drawn from the above
MatcherInit ==
    /\ \E pats \in PatternLists :
          metadata = [InitialMetadata EXCEPT !.preservation_patterns = pats]
    /\ disk = metadata
    /\ \E missing \in SUBSET Removed : exists = [ f \in Folders |-> f \notin missing ]
    /\ \E t \in ScanTrees :
          files = [ f \in Folders |->
                     IF exists[f] THEN ClonedTree(UrlOf(f)) @@ t ELSE EmptyTree ]
    /\ backups = [ f \in Folders |-> EmptyTree ]
    /\ scriptExists = TRUE
    /\ upstream = [ u \in Urls |-> EmptyTree ]
    /\ now = SecsPerDay
    /\ pc = "idle"
    /\ mode = "none"
    /\ idx = 0
    /\ counts = <<0, 0>>
    /\ sh = ShOff
    /\ result = [success |-> FALSE, output |-> <<>>]
    /\ runs = 0
    /\ faults = 0
    /\ hist = NoHist
    /\ batch = NoBatch
    /\ custom_files = <<>>
    /\ scanned = 0
    /\ procs = NoProcs
    /\ saves = <<>>

MatcherNext == \E i \in 1..Len(metadata.lessons) : CheckCustomChanges(i)

MatcherSpec == MatcherInit /\ [][MatcherNext]_vars

---------------------------------------------------------------------------
\* scripts/sync-lesson.sh --all, as the scheduled workflow runs it: no manager
\* process, no timeout; the catalog is neither read nor written

\* lessons/*/ : the lesson directories there are, in the order of their names
LessonGlob == SelectSeq([ i \in 1..Len(LESSONS) |-> LESSONS[i].folder ],
                        LAMBDA f : exists[f])

\* a lesson directory without its marker file
Unmarked(tree) == [ q \in (DOMAIN tree) \ { <<LESSON_INFO>> } |-> tree[q] ]

\* the repository before a run of the script: lesson directories as added, at
\* most one of them without LESSON_INFO.md
ShAllInit ==
    /\ metadata = InitialMetadata
    /\ disk = InitialMetadata
    /\ \E missing \in SUBSET Removed : exists = [ f \in Folders |-> f \notin missing ]
    /\ \E unmarked \in { U \in SUBSET Folders : Cardinality(U) <= 1 } :
          files = [ f \in Folders |->
                      IF ~exists[f] THEN EmptyTree
                      ELSE IF f \in unmarked
                      THEN Unmarked(InitialTree(UrlOf(f), f \in Customized))
                      ELSE InitialTree(UrlOf(f), f \in Customized) ]
    /\ backups = [ f \in Folders |-> EmptyTree ]
    /\ scriptExists = TRUE
    /\ \E up \in UpstreamTrees : upstream = [ u \in Urls |-> up ]
    /\ now = SecsPerDay
    /\ pc = "idle"
    /\ mode = "none"
    /\ idx = 0
    /\ counts = <<0, 0>>
    /\ sh = ShOff
    /\ result = [success |-> FALSE, output |-> <<>>]
    /\ runs = 0
    /\ faults = 0
    /\ hist = NoHist
    /\ batch = NoBatch
    /\ custom_files = <<>>
    /\ scanned = 0
    /\ procs = NoProcs
    /\ saves = <<>>

\* if [ "$1" == "--all" ]; then for LESSON_DIR in lessons/*/; do
ShAllStart ==
    /\ pc = "idle"
    /\ runs < MaxRuns
    /\ runs' = runs + 1
    /\ pc' = "for"
    /\ mode' = "--all"
    /\ idx' = 1
    /\ sh' = ShOff
    /\ batch' = [ preFiles |-> files, preBackups |-> backups,
                  preMetadata |-> metadata, attempts |-> <<>> ]
    /\ UNCHANGED << metadata, disk, exists, files, backups, scriptExists, upstream,
                    now, counts, result, faults, hist >>
    /\ UNCHANGED << matcherVars, managerVars >>

\* if [ -d "$LESSON_DIR" ]; then LESSON_NAME=$(basename "$LESSON_DIR");
\* sync_single_lesson "$LESSON_NAME"
ShAllIter ==
    /\ pc = "for"
    /\ idx <= Len(LessonGlob)
    /\ LET f == LessonGlob[idx]
       IN  /\ sh' = [ShOff EXCEPT !.stage = "validate", !.folder = f]
           /\ hist' = [NoHist EXCEPT !.folder = f, !.pre = files[f],
                                     !.preBackups = backups[f],
                                     !.prevFolder = hist.folder,
                                     !.prevAt = hist.at, !.prevPre = hist.pre,
                                     !.prevOk = (hist.end = "complete" /\ hist.fetch = "ok"
                                                 /\ hist.restore = "ok"),
                                     !.end = "running"]
    /\ pc' = "script"
    /\ UNCHANGED << metadata, disk, exists, files, backups, scriptExists, upstream,
                    now, mode, idx, counts, result, runs, faults, batch >>
    /\ UNCHANGED << matcherVars, managerVars >>

\* sync_single_lesson is over: with status 0 the loop goes on; a return 1 or a
\* failed command in it ends the script with that status (set -e; the call is
\* neither a condition nor part of a && / || list)
ShAllReturned ==
    /\ Running("exited")
    /\ batch' = [batch EXCEPT !.attempts =
                    Append(@, [idx |-> idx, success |-> (sh.code = 0),
                               fetch |-> hist.fetch, end |-> hist.end])]
    /\ IF sh.code = 0
       THEN /\ pc' = "for"
            /\ idx' = idx + 1
            /\ sh' = ShOff
       ELSE /\ pc' = "idle"
            /\ idx' = idx
            /\ sh' = [ShOff EXCEPT !.code = sh.code]
    /\ UNCHANGED << metadata, disk, exists, files, backups, scriptExists, upstream,
                    now, mode, counts, result, runs, faults, hist >>
    /\ UNCHANGED << matcherVars, managerVars >>

\* done: the script ends with status 0
ShAllDone ==
    /\ pc = "for"
    /\ idx > Len(LessonGlob)
    /\ pc' = "idle"
    /\ sh' = ShOff
    /\ UNCHANGED << metadata, disk, exists, files, backups, scriptExists, upstream,
                    now, mode, idx, counts, result, runs, faults, hist, batch >>
    /\ UNCHANGED << matcherVars, managerVars >>

ShAllNext ==
    \/ ShAllStart
    \/ ShAllIter
    \/ ShValidate
    \/ ShDiscover
    \/ ShBackup
    \/ ShFetch
    \/ ShRemove
    \/ ShInstall
    \/ ShRestore
    \/ ShFinalize
    \/ ShAllReturned
    \/ ShAllDone
    \/ Tick

ShAllSpec == ShAllInit /\ [][ShAllNext]_vars

---------------------------------------------------------------------------
\* the manager when lessons-metadata.json cannot be written

\* open(filepath, 'w') has emptied the file and json.dump did not complete:
\* no catalog can be read from it
TornCatalog ==
    [ lessons |-> <<>>, last_updated |-> 0, version |-> "",
      preservation_patterns |-> <<>> ]

\* LessonManager.sync_lesson after a successful script when self.metadata.save()
\* raises (OSError from open or from the write): last_synced is set in memory
\* already; nothing catches the exception in sync_lesson, sync_all_lessons or
\* the menus, so it reaches DSAIManagementApp.run, which prints "Unexpected
\* error" and calls sys.exit(1)
ScriptReturnSaveRaises ==
    /\ Running("exited")
    /\ sh.code = 0
    /\ faults < MaxFaults
    /\ faults' = faults + 1
    /\ metadata' = [metadata EXCEPT !.lessons[idx].last_synced = Date(now)]
    /\ disk' \in { disk, TornCatalog }
    /\ hist' = [hist EXCEPT !.end = "save"]
    /\ pc' = "exit(1)"
    /\ sh' = ShOff
    /\ UNCHANGED << exists, files, backups, scriptExists, upstream, now,
                    mode, idx, counts, result, runs, batch >>
    /\ UNCHANGED << matcherVars, managerVars >>

SaveFaultNext == Next \/ ScriptReturnSaveRaises

SaveFaultSpec == Init /\ [][SaveFaultNext]_vars

---------------------------------------------------------------------------
\* sync_all_lessons with clones that stall, and the progress of the code

\* git clone "$SOURCE_REPO" "$TEMP_DIR" waits for the network and does not return
FetchStalls ==
    /\ Running("fetch")
    /\ faults < MaxFaults
    /\ faults' = faults + 1
    /\ sh' = [sh EXCEPT !.stage = "stalled"]
    /\ hist' = [hist EXCEPT !.fetch = "stalled"]
    /\ UNCHANGED << metadata, disk, exists, files, backups, scriptExists, upstream,
                    now, pc, mode, idx, counts, result, runs, batch >>
    /\ UNCHANGED << matcherVars, managerVars >>

\* a command of the script ends, or subprocess.run cuts the script off after
\* timeout=300 seconds, and sync_lesson returns
ScriptStep ==
    \/ ShValidate
    \/ ShDiscover
    \/ ShBackup
    \/ ShFetch
    \/ ShRemove
    \/ ShInstall
    \/ ShRestore
    \/ ShFinalize
    \/ Timeout
    \/ ScriptReturn

\* the for loop of sync_all_lessons goes to its next statement
LoopStep == SyncAllIter \/ SyncAllReturn

StallNext ==
    \/ SyncAllStart
    \/ LoopStep
    \/ ScriptStep
    \/ FetchStalls
    \/ Tick

StallSpec ==
    /\ Init
    /\ [][StallNext]_vars
    /\ WF_vars(ScriptStep)
    /\ WF_vars(LoopStep)

---------------------------------------------------------------------------
\* two manager processes on one repository: each has its own catalog in memory,
\* both write lessons-metadata.json; nothing serialises them

Managers == {"m1", "m2"}

\* both managers are constructed: self.metadata = LessonMetadata.load()
TwoInit ==
    /\ metadata = InitialMetadata
    /\ disk = InitialMetadata
    /\ \E missing \in SUBSET Removed : exists = [ f \in Folders |-> f \notin missing ]
    /\ files = [ f \in Folders |->
                  IF exists[f] THEN InitialTree(UrlOf(f), f \in Customized) ELSE EmptyTree ]
    /\ backups = [ f \in Folders |-> EmptyTree ]
    /\ scriptExists = TRUE
    /\ \E up \in UpstreamTrees : upstream = [ u \in Urls |-> up ]
    /\ now = SecsPerDay
    /\ pc = "idle"
    /\ mode = "none"
    /\ idx = 0
    /\ counts = <<0, 0>>
    /\ sh = ShOff
    /\ result = [success |-> FALSE, output |-> <<>>]
    /\ runs = 0
    /\ faults = 0
    /\ hist = NoHist
    /\ batch = NoBatch
    /\ custom_files = <<>>
    /\ scanned = 0
    /\ procs = [ p \in Managers |->
                  [ pc |-> "idle", metadata |-> Load(disk), idx |-> 0, success |-> FALSE ] ]
    /\ saves = <<>>

\* the variables one manager's own state machine uses, unused here
oneManagerVars == << metadata, pc, mode, idx, counts, sh, result, hist, batch >>

\* manager p calls sync_lesson on lesson i; the operator keeps the two
\* managers off the same lesson directory
ManagerSync(p, i) ==
    /\ procs[p].pc = "idle"
    /\ runs < MaxRuns
    /\ i \in 1..Len(procs[p].metadata.lessons)
    /\ exists[procs[p].metadata.lessons[i].folder]
    /\ \A q \in Managers \ {p} : procs[q].pc = "idle" \/ procs[q].idx # i
    /\ runs' = runs + 1
    /\ procs' = [procs EXCEPT ![p].pc = "script", ![p].idx = i]
    /\ UNCHANGED << disk, exists, files, backups, scriptExists, upstream, now,
                    faults, saves >>
    /\ UNCHANGED << oneManagerVars, matcherVars >>

\* sync-lesson.sh <folder> from its first command to its last, or cut off by
\* the timeout while it clones
ManagerScript(p) ==
    /\ procs[p].pc = "script"
    /\ LET f == procs[p].metadata.lessons[procs[p].idx].folder
           src == GrepSource(files[f])
           old == IF now \in DOMAIN backups[f] THEN backups[f][now] ELSE EmptyTree
           saved == CpR(BackupCopy(f, files[f]), old, Dirs(old)).tree
           removed == RemoveOld(files[f])
           installed == CpR(GitClone(src, TRUE), removed, LessonDirs(removed))
           restored == CpR(saved, installed.tree, LessonDirs(installed.tree))
       IN  \E cut \in BOOLEAN :
              /\ cut => faults < MaxFaults
              /\ faults' = IF cut THEN faults + 1 ELSE faults
              /\ IF src = ""
                 THEN /\ UNCHANGED << files, backups >>
                      /\ procs' = [procs EXCEPT ![p].pc = "returned", ![p].success = FALSE]
                 ELSE /\ backups' = [backups EXCEPT ![f] = (now :> saved) @@ backups[f]]
                      /\ files' = [files EXCEPT ![f] =
                                      IF cut THEN files[f]
                                      ELSE IF ~installed.ok THEN installed.tree
                                      ELSE SedLastSynced(restored.tree, Date(now))]
                      /\ procs' = [procs EXCEPT ![p].pc = "returned",
                                                ![p].success = ~cut /\ installed.ok]
    /\ UNCHANGED << disk, exists, scriptExists, upstream, now, runs, saves >>
    /\ UNCHANGED << oneManagerVars, matcherVars >>

\* a return of sync_lesson that writes only the synced lesson's date into the
\* catalog as it is on disk
ManagerReturnMerging(p) ==
    /\ procs[p].pc = "returned"
    /\ LET i == procs[p].idx
           md == [procs[p].metadata EXCEPT !.lessons[i].last_synced = Date(now)]
       IN  IF procs[p].success
           THEN /\ procs' = [procs EXCEPT ![p].pc = "idle", ![p].metadata = md]
                /\ disk' = [disk EXCEPT !.lessons[i].last_synced = Date(now)]
                /\ saves' = Append(saves, p)
           ELSE /\ procs' = [procs EXCEPT ![p].pc = "idle"]
                /\ UNCHANGED << disk, saves >>
    /\ UNCHANGED << exists, files, backups, scriptExists, upstream, now, runs, faults >>
    /\ UNCHANGED << oneManagerVars, matcherVars >>

\* sync_lesson of manager p after run_script has returned:
\* if success: lesson.last_synced = today; self.metadata.save()
ManagerReturn(p) ==
    /\ procs[p].pc = "returned"
    /\ LET i == procs[p].idx
           md == [procs[p].metadata EXCEPT !.lessons[i].last_synced = Date(now)]
       IN  IF procs[p].success
           THEN /\ procs' = [procs EXCEPT ![p].pc = "idle", ![p].metadata = md]
                /\ disk' = Save(md)
                /\ saves' = Append(saves, p)
           ELSE /\ procs' = [procs EXCEPT ![p].pc = "idle"]
                /\ UNCHANGED << disk, saves >>
    /\ UNCHANGED << exists, files, backups, scriptExists, upstream, now, runs, faults >>
    /\ UNCHANGED << oneManagerVars, matcherVars >>

\* SettingsMenu.refresh_metadata in manager p
ManagerRefresh(p) ==
    /\ procs[p].pc = "idle"
    /\ procs' = [procs EXCEPT ![p].metadata = Load(disk)]
    /\ UNCHANGED << disk, exists, files, backups, scriptExists, upstream, now,
                    runs, faults, saves >>
    /\ UNCHANGED << oneManagerVars, matcherVars >>

TwoNext ==
    \E p \in Managers :
        \/ \E i \in 1..Len(LESSONS) : ManagerSync(p, i)
        \/ ManagerScript(p)
        \/ ManagerReturn(p)
        \/ ManagerRefresh(p)

TwoSpec == TwoInit /\ [][TwoNext]_vars

---------------------------------------------------------------------------
\* Properties

\* the last sync_lesson has returned; hist and result describe it
AfterSync == pc # "script" /\ hist.folder # ""

\* ... and its script ran to its last line with the clone and the restore done
SyncedOk ==
    /\ AfterSync
    /\ result.success
    /\ hist.end = "complete"
    /\ hist.fetch = "ok"
    /\ hist.restore = "ok"

\* the learner's files of a lesson directory: what matches a pattern, the
\* reserved marker file apart
LearnerFiles(tree) == Matched(tree) \ { <<LESSON_INFO>> }

WithoutMarker(tree) == [ q \in (DOMAIN tree) \ { <<LESSON_INFO>> } |-> tree[q] ]

CatalogRecord(md, f) ==
    LET i == CHOOSE k \in 1..Len(md.lessons) : md.lessons[k].folder = f
    IN  md.lessons[i]

\* C1: a learner's file that is in the lesson directory before a sync and not in
\* the fresh fetch is at the same relative path with the same content after a
\* successful sync.
C1_PreservedFileSurvives ==
    SyncedOk =>
        \A q \in LearnerFiles(hist.pre) \ DOMAIN hist.fetched :
            /\ q \in DOMAIN files[hist.folder]
            /\ files[hist.folder][q] = hist.pre[q]

\* C2: where a learner's file and a fetched file have the same relative path,
\* the file holds the learner's content after a successful sync.
C2_PreservedWinsConflict ==
    SyncedOk =>
        \A q \in LearnerFiles(hist.pre) \cap DOMAIN hist.fetched :
            /\ q \in DOMAIN files[hist.folder]
            /\ files[hist.folder][q] = hist.pre[q]

\* C3: when the clone fails, sync_lesson reports failure, and the lesson
\* directory and the lesson's last_synced (in memory and persisted) are what
\* they were before the call.
C3_FetchFailureChangesNothing ==
    (AfterSync /\ hist.fetch = "failed") =>
        /\ ~result.success
        /\ files[hist.folder] = hist.pre
        /\ CatalogRecord(metadata, hist.folder).last_synced
              = CatalogRecord(hist.preMetadata, hist.folder).last_synced
        /\ CatalogRecord(disk, hist.folder).last_synced
              = CatalogRecord(hist.preDisk, hist.folder).last_synced

\* C4: a lesson directory to which the learner added nothing, and so without
\* learner's files, holds after a successful sync exactly the fetched files
\* (beside the reserved marker file and backups).
C4_NoCustomFilesGivesFetch ==
    (SyncedOk /\ hist.folder \notin Customized /\ LearnerFiles(hist.pre) = {}) =>
        WithoutMarker(files[hist.folder]) = WithoutMarker(hist.fetched)

\* the files of two trees agree, the date of the marker file apart
SameContent(t, u) ==
    /\ DOMAIN t = DOMAIN u
    /\ \A q \in DOMAIN t : t[q].text = u[q].text /\ t[q].source = u[q].source

\* C5: a successful sync of a lesson that the sync before it had just synced
\* leaves the content of the lesson directory outside the backups as it was;
\* no path is added.
C5_SyncIdempotent ==
    (SyncedOk /\ hist.prevOk /\ hist.prevFolder = hist.folder) =>
        SameContent(files[hist.folder], hist.pre)

\* sync_all_lessons has returned
BatchDone == pc = "idle" /\ mode = "all"

\* C6: over three lessons of which exactly the second's clone fails,
\* sync_all_lessons returns (2, 1) and leaves the second lesson's directory
\* as it was.
C6_SyncAllCountsFetchFailure ==
    ( /\ BatchDone
      /\ Len(batch.attempts) = 3
      /\ batch.attempts[1].end = "complete" /\ batch.attempts[1].fetch = "ok"
      /\ batch.attempts[2].fetch = "failed"
      /\ batch.attempts[3].end = "complete" /\ batch.attempts[3].fetch = "ok" ) =>
        /\ counts = <<2, 1>>
        /\ files[metadata.lessons[2].folder] = batch.preFiles[metadata.lessons[2].folder]

\* the attempts of sync_all_lessons so far are the lessons of the catalog, in
\* order, once each, and each is counted once
BatchInOrder ==
    mode = "all" =>
        /\ \A k \in 1..Len(batch.attempts) : batch.attempts[k].idx = k
        /\ Len(batch.attempts) = (IF pc = "idle" THEN Len(metadata.lessons) ELSE idx - 1)
        /\ counts[1] = Cardinality({ k \in 1..Len(batch.attempts) : batch.attempts[k].success })
        /\ counts[2] = Cardinality({ k \in 1..Len(batch.attempts) : ~batch.attempts[k].success })

\* a step of a sync leaves every other lesson's directory and record alone
OthersUntouched ==
    \A g \in Folders \ { hist'.folder } :
        /\ exists'[g] = exists[g]
        /\ files'[g] = files[g]
        /\ backups'[g] = backups[g]
        /\ CatalogRecord(metadata', g) = CatalogRecord(metadata, g)
        /\ CatalogRecord(disk', g) = CatalogRecord(disk, g)

\* C7: in sync_all_lessons every lesson of the catalog is attempted once, in
\* catalog order, whatever failed before it; success_count + failed_count is
\* the number of lessons; the sync of a lesson changes no other lesson's
\* directory or catalog record.
C7_BatchContinuesPastFailures == []BatchInOrder /\ [][OthersUntouched]_vars

\* a batch in which a lesson failed and the lesson after it was synced
C7_Witness ==
    /\ BatchDone
    /\ \E k \in 1..(Len(batch.attempts) - 1) :
          ~batch.attempts[k].success /\ batch.attempts[k + 1].success

\* C8: sync_lesson on a lesson whose directory does not exist returns (False,
\* "Lesson directory not found: <folder>") without running the script and
\* leaves the files, the backups and the catalog, in memory and persisted,
\* as they were.
C8_MissingDirectoryFailsFast ==
    /\ pc = "script" => exists[sh.folder]
    /\ (AfterSync /\ ~exists[hist.folder]) =>
          /\ result = [ success |-> FALSE,
                        output |-> <<"Lesson directory not found: ", hist.folder>> ]
          /\ hist.end = "dir_missing"
          /\ files[hist.folder] = hist.pre
          /\ backups[hist.folder] = hist.preBackups
          /\ metadata = hist.preMetadata
          /\ disk = hist.preDisk

\* sync_lesson has returned for a lesson without directory
C8_Witness == AfterSync /\ ~exists[hist.folder] /\ ~result.success

\* the lesson directory a complete run of the script leaves
PostSync(h) ==
    LET installed == CpR(h.fetched, RemoveOld(h.pre), LessonDirs(RemoveOld(h.pre))).tree
        restored == CpR(backups[h.folder][h.backup], installed, LessonDirs(installed)).tree
    IN  SedLastSynced(restored, Date(now))

\* C9: when the script fails while it resolves the source, backs up, clones or
\* replaces, the lesson directory is what it was before the sync or what a
\* complete sync leaves.
C9_FailureLeavesPreOrPost ==
    (AfterSync /\ ~result.success /\ hist.end \in {"discover", "install"}) =>
        \/ files[hist.folder] = hist.pre
        \/ hist.backup \in DOMAIN backups[hist.folder]
             /\ files[hist.folder] = PostSync(hist)

\* C10: when the restore fails after the replace, sync_lesson reports failure
\* with the diagnostic RestoreIncomplete.
C10_RestoreFailureReported ==
    (AfterSync /\ hist.restore = "failed") =>
        /\ ~result.success
        /\ result.output = <<"RestoreIncomplete">>

\* a step in which sync_lesson returns: from the script, or at once
SyncReturns ==
    /\ pc' # "script"
    /\ \/ pc = "script"
       \/ pc = "idle" /\ pc' = "idle" /\ runs' # runs
       \/ pc = "loop" /\ pc' = "loop"

C12_LastSyncedMonotonic ==
    [][ \A i \in 1..Len(metadata.lessons) :
          /\ metadata'.lessons[i].last_synced >= metadata.lessons[i].last_synced
          /\ disk'.lessons[i].last_synced >= disk.lessons[i].last_synced ]_vars

\* the catalog was refreshed after a lesson was synced on two different days
C12_Witness ==
    /\ mode = "refresh"
    /\ \E i \in 1..Len(metadata.lessons) :
          /\ hist.preMetadata.lessons[i].last_synced > InitialMetadata.lessons[i].last_synced
          /\ metadata.lessons[i].last_synced > hist.preMetadata.lessons[i].last_synced

Range(s) == { s[k] : k \in DOMAIN s }

\* the lesson check_custom_changes was last called on
ScannedFolder == metadata.lessons[scanned].folder

\* C13: what check_custom_changes returns is, as a set, the union of what each
\* pattern alone gives, and the same for every order of the patterns.
C13_UnionAnyOrder ==
    scanned # 0 =>
        LET f == ScannedFolder
            pats == metadata.preservation_patterns
        IN  /\ Range(custom_files) =
                  UNION { UNION { Range(l) : l \in CustomChanges(<<pats[k]>>, f) } :
                          k \in DOMAIN pats }
            /\ \A perm \in Orders(Range(pats)) :
                  \A l \in CustomChanges(perm, f) : Range(l) = Range(custom_files)

\* several patterns, and paths reported for more than one of them
C13_Witness ==
    /\ scanned # 0
    /\ Len(metadata.preservation_patterns) >= 2
    /\ Cardinality({ k \in DOMAIN metadata.preservation_patterns :
                       PatternItems(metadata.preservation_patterns[k], ScannedFolder) # {} }) >= 2

\* C14: on a lesson without directory check_custom_changes returns the empty
\* list, whatever the patterns.
C14_MissingRootGivesEmpty ==
    (scanned # 0 /\ ~exists[ScannedFolder]) => custom_files = <<>>

\* called on a lesson without directory, with patterns to look for
C14_Witness ==
    /\ scanned # 0
    /\ ~exists[ScannedFolder]
    /\ metadata.preservation_patterns # <<>>
    /\ custom_files = <<>>

\* C15: a call of check_custom_changes changes no file, no backup and no field
\* of the catalog, in memory or persisted, and a second call on the state it
\* leaves returns the same set.
C15_MatcherReadOnly ==
    [][ (scanned' # scanned \/ custom_files' # custom_files) =>
          /\ UNCHANGED << metadata, disk, exists, files, backups, upstream >>
          /\ \A l \in (check_custom_changes(scanned))' :
                Range(l) = Range(custom_files') ]_vars

\* a call that reported something, with a directory pattern in the catalog
C15_Witness ==
    /\ scanned # 0
    /\ custom_files # <<>>
    /\ \E k \in DOMAIN metadata.preservation_patterns :
          endswith(metadata.preservation_patterns[k])

\* the last name of a path
Name(p) == p[Len(p)]

\* C16: with one pattern in the catalog, a pattern with trailing separator
\* reports exactly the directories, at any depth, whose name matches the glob
\* without the separator, and a pattern without it exactly the files whose name
\* matches.
C16_DirAndFilePatterns ==
    (scanned # 0 /\ exists[ScannedFolder] /\ Len(metadata.preservation_patterns) = 1) =>
        LET f == ScannedFolder
            pat == metadata.preservation_patterns[1]
            reported == Range(custom_files)
        IN  IF endswith(pat)
            THEN /\ \A p \in reported : p \in DirPaths(f) /\ p \notin FilePaths(f)
                 /\ \A d \in DirPaths(f) : Glob(rstrip(pat), Name(d)) <=> d \in reported
            ELSE /\ \A p \in reported : p \in FilePaths(f) /\ p \notin DirPaths(f)
                 /\ \A q \in FilePaths(f) : Glob(pat, Name(q)) <=> q \in reported

\* a directory pattern that reported a nested directory and left out a file of
\* a matching name
C16_Witness ==
    /\ scanned # 0
    /\ Len(metadata.preservation_patterns) = 1
    /\ endswith(metadata.preservation_patterns[1])
    /\ \E d \in Range(custom_files) : Len(d) > 1
    /\ \E q \in FilePaths(ScannedFolder) :
          Glob(rstrip(metadata.preservation_patterns[1]), Name(q))

\* C17: every path check_custom_changes returns is relative to the lesson
\* directory, and no path is returned twice.
C17_RelativeAndOnce ==
    scanned # 0 =>
        /\ \A k \in DOMAIN custom_files :
              custom_files[k] \in FilePaths(ScannedFolder) \cup DirPaths(ScannedFolder)
        /\ Len(custom_files) = Cardinality(Range(custom_files))

\* the files check_custom_changes reports, or reports a directory above
Covered(f) ==
    { q \in DOMAIN files[f] :
        \E k \in 1..Len(q) : SubSeq(q, 1, k) \in Range(custom_files) }

\* C20: with the catalog's patterns as set up, the files the script's backup
\* loop copies (the marker file apart) are those check_custom_changes reports
\* on the same lesson directory, a reported directory standing for its files.
C20_BackupIsMatcherResult ==
    ( /\ scanned # 0
      /\ exists[ScannedFolder]
      /\ metadata.preservation_patterns = preservation_patterns ) =>
        Matched(files[ScannedFolder]) \ { <<LESSON_INFO>> } = Covered(ScannedFolder)

\* the order of the commands of the script
StageOrder ==
    { <<"off", "validate">>, <<"validate", "discover">>, <<"discover", "backup">>,
      <<"backup", "fetch">>, <<"fetch", "remove">>, <<"remove", "install">>,
      <<"install", "restore">>, <<"restore", "finalize">>, <<"finalize", "exited">>,
      <<"exited", "off">> }
    \cup { <<st, "exited">> : st \in {"validate", "discover", "fetch", "remove",
                                      "install", "restore"} }

\* what a step of the script may write, by the command it is at
StepInOrder ==
    /\ sh'.stage # sh.stage => <<sh.stage, sh'.stage>> \in StageOrder
    /\ backups' # backups => sh.stage = "backup"
    /\ \A f \in Folders :
          /\ files'[f] # files[f] =>
                /\ f = sh.folder
                /\ sh.stage \in {"remove", "install", "restore", "finalize"}
                /\ hist.backup \in DOMAIN backups[f]
                /\ hist.fetch # "none"
          /\ (DOMAIN files[f]) \ (DOMAIN files'[f]) # {} => sh.stage = "remove"
          /\ sh.stage = "finalize" =>
                /\ DOMAIN files'[f] = DOMAIN files[f]
                /\ \A q \in (DOMAIN files[f]) \ { <<LESSON_INFO>> } : files'[f][q] = files[f][q]

\* C18: the script runs validate, discover, backup, fetch, remove, install,
\* restore, finalize in this order: nothing is deleted from the lesson
\* directory before the backup and the clone are done, the fetched tree is
\* installed before the restore, and after the restore only the date in the
\* marker file is written.
C18_StepsInOrder == [][StepInOrder]_vars

\* a script that went through all its commands and changed the directory
C18_Witness ==
    /\ Running("exited")
    /\ hist.end = "complete"
    /\ hist.backup \in DOMAIN backups[sh.folder]
    /\ files[sh.folder] # hist.pre

\* C19: the repository the script clones, also right after a successful sync
\* of the same lesson, is the source_repo of the lesson's catalog record.
C19_SourceFromCatalog ==
    (pc = "script" /\ hist.fetch # "none" /\ hist.prevOk /\ hist.prevFolder = sh.folder) =>
        sh.SOURCE_REPO = CatalogRecord(metadata, sh.folder).source_repo

\* C21: the backup location of a sync is one that no earlier sync of the lesson
\* has used.
C21_BackupLocationFresh ==
    (hist.folder # "" /\ hist.backup # 0) => hist.backup \notin DOMAIN hist.preBackups

\* C22: every backup location that was there when a sync started is still
\* there, with the content it had.
C22_BackupsKept ==
    (hist.folder # "" /\ hist.prevOk /\ hist.prevFolder = hist.folder) =>
        \A ts \in DOMAIN hist.preBackups :
            /\ ts \in DOMAIN backups[hist.folder]
            /\ backups[hist.folder][ts] = hist.preBackups[ts]

\* C30: after a successful sync the marker file of the lesson is still there and
\* still names the source location it named before the sync.
C30_MarkerKeepsSource ==
    (SyncedOk /\ <<LESSON_INFO>> \in DOMAIN hist.pre) =>
        /\ <<LESSON_INFO>> \in DOMAIN files[hist.folder]
        /\ files[hist.folder][<<LESSON_INFO>>].source = hist.pre[<<LESSON_INFO>>].source

\* C27: the diagnostic of a failed sync_lesson is not empty and names the lesson
\* that failed.
C27_FailureNamesLesson ==
    (AfterSync /\ ~result.success /\ scriptExists) =>
        /\ result.output # <<>>
        /\ \E k \in 1..Len(result.output) : result.output[k] = hist.folder

\* C26: when a sync was cut off while it replaced the content (after the backup
\* and the removal, in the copy of the clone), a complete sync of the same lesson
\* after it leaves the fetched content in the directory and every learner's file
\* that was there before the interrupted sync at its path with its content.
C26_RerunRecovers ==
    (SyncedOk /\ hist.prevFolder = hist.folder /\ hist.prevAt = "install") =>
        /\ \A q \in DOMAIN hist.fetched \ { <<LESSON_INFO>> } :
              q \in DOMAIN files[hist.folder] /\ files[hist.folder][q] = hist.fetched[q]
        /\ \A q \in LearnerFiles(hist.prevPre) \ DOMAIN hist.fetched :
              q \in DOMAIN files[hist.folder] /\ files[hist.folder][q] = hist.prevPre[q]

\* the catalog a is the catalog b, the last_synced of the lessons in S apart
SameButLastSynced(a, b, S) ==
    /\ a.version = b.version
    /\ a.last_updated = b.last_updated
    /\ a.preservation_patterns = b.preservation_patterns
    /\ Len(a.lessons) = Len(b.lessons)
    /\ \A k \in 1..Len(b.lessons) :
          IF b.lessons[k].folder \in S
          THEN [a.lessons[k] EXCEPT !.last_synced = 0] = [b.lessons[k] EXCEPT !.last_synced = 0]
          ELSE a.lessons[k] = b.lessons[k]

\* the lesson whose successful sync returns in this step, if any
SyncedNow == IF pc = "script" /\ pc' # "script" /\ result'.success THEN { hist'.folder } ELSE {}

CatalogFrame ==
    mode' # "refresh" =>
        /\ SameButLastSynced(metadata', metadata, SyncedNow)
        /\ SameButLastSynced(disk', disk, SyncedNow)

\* C28: a step of sync_lesson or sync_all_lessons changes nothing in the catalog,
\* in memory and as persisted, but the last_synced of the lesson whose sync
\* succeeds in that step: lessons and their order, the other fields of every
\* lesson, patterns, version and last_updated stay as they are.
C28_OnlyLastSyncedChanges == [][CatalogFrame]_vars

C28_Witness ==
    /\ BatchDone
    /\ counts[1] > 0 /\ counts[2] > 0
    /\ metadata # batch.preMetadata
    /\ disk = metadata

\* a run of sync-lesson.sh --all is over
ShAllOver == pc = "idle" /\ mode = "--all"

\* C23: when sync-lesson.sh --all is over, every lesson directory has been
\* synced, those after a lesson whose sync failed included.
C23_ScriptBatchGoesOn ==
    ShAllOver => Len(batch.attempts) = Len(LessonGlob)

\* C24: when a lesson of a batch was synced and the catalog could not be
\* written, sync_lesson has returned a failure with a diagnostic for that lesson
\* and sync_all_lessons is still running or has returned its counts, with the
\* lesson counted as failed.
C24_CatalogWriteFailureReported ==
    (mode = "all" /\ hist.end = "save") =>
        /\ pc \in {"loop", "script", "idle"}
        /\ ~result.success /\ result.output # <<>>
        /\ \E k \in 1..Len(batch.attempts) :
              /\ metadata.lessons[batch.attempts[k].idx].folder = hist.folder
              /\ ~batch.attempts[k].success

\* a finished batch has attempted every lesson and counts as failed the
\* lessons whose script was cut off, and no other lesson because of them
StalledAloneFailed ==
    BatchDone =>
        /\ Len(batch.attempts) = Len(metadata.lessons)
        /\ \A k \in 1..Len(batch.attempts) :
              batch.attempts[k].end = "timeout" => ~batch.attempts[k].success
        /\ \A k \in 1..Len(batch.attempts) :
              ~batch.attempts[k].success =>
                  batch.attempts[k].end \in {"timeout", "dir_missing", "no_script",
                                             "discover", "install"}
        /\ counts[2] = Cardinality({ k \in 1..Len(batch.attempts) :
                                        ~batch.attempts[k].success })

\* C25: sync_all_lessons, once started, returns; a clone that stalls is cut off
\* by the timeout, its lesson is counted failed, and the lessons after it are
\* attempted.
C25_BatchTerminates ==
    /\ (mode = "all" /\ pc # "idle") ~> BatchDone
    /\ []StalledAloneFailed

C25_Witness ==
    /\ BatchDone
    /\ \E k \in 1..(Len(batch.attempts) - 1) :
          /\ batch.attempts[k].fetch = "stalled"
          /\ batch.attempts[k].end = "timeout"
          /\ ~batch.attempts[k].success
          /\ batch.attempts[k + 1].success

\* the manager that wrote the catalog last
LastSaver == saves[Len(saves)]

\* C29: the persisted catalog is, as a whole, the in-memory catalog of the
\* manager that saved last; what another manager saved before is in it only
\* if the last saver had loaded it.
C29_LastWriterWins ==
    saves # <<>> => disk = procs[LastSaver].metadata

\* two managers have each synced a lesson of their own with success, and the
\* persisted catalog has the date of the later one only
C29_Witness ==
    /\ Len(saves) = 2
    /\ saves[1] # saves[2]
    /\ procs[saves[1]].pc = "idle" /\ procs[saves[2]].pc = "idle"
    /\ procs[saves[1]].idx # procs[saves[2]].idx
    /\ disk.lessons[procs[saves[2]].idx].last_synced = Date(now)
    /\ procs[saves[1]].metadata.lessons[procs[saves[1]].idx].last_synced = Date(now)
    /\ disk.lessons[procs[saves[1]].idx].last_synced
           = InitialMetadata.lessons[procs[saves[1]].idx].last_synced
    /\ Date(now) # InitialMetadata.lessons[procs[saves[1]].idx].last_synced

====
